---- MODULE Spec2Model ----
(***************************************************************************)
(* A model of zf, an interactive fuzzy finder: the ranking engine of       *)
(* src/filter.rs and the terminal session of src/ui.rs.                    *)
(*                                                                         *)
(* Strings are sequences of bytes (naturals).  Rust's 0-based offsets are  *)
(* kept: byte i of s is s[i + 1].  An f64 rank x is kept exactly, as the   *)
(* integer x * Scale: every rank the engine computes is a sum of numbers   *)
(* k * (n - t) / (2 * n) or k / 4 with n at most MaxPathLen, so x * Scale  *)
(* is an integer.  A Rust panic (an index out of bounds) is the outcome    *)
(* "panic" of the operator that raises it.                                 *)
(***************************************************************************)
EXTENDS Integers, Sequences, FiniteSets, TLC

VARIABLES
    \* one call of a library function, studied alone
    input,      \* the arguments of the call
    output,     \* what the call returned
    calls,      \* how many calls have been made
    \* the interactive session: main and Terminal::run
    pc,         \* where the process is
    candidates, \* the candidates read from stdin
    keep_order, \* config.keep_order
    tty,        \* the attributes of the terminal device
    term,       \* Terminal.term: the attributes captured by Terminal::new
    raw_term,   \* Terminal.raw_term
    restores,   \* how many times the captured attributes were applied again
    query,      \* run's query
    state,      \* run's state: [cursor, selected]
    filtered,   \* run's filtered
    old_query,  \* run's old_query
    old_state,  \* run's old_state
    redraw,     \* run's redraw
    frame,      \* what the last draw put on the screen
    last_action,\* the action of the last key read; NoKey, with the byte that
                \* was read, when read_key returned None
    result,     \* what run returned
    printed     \* what main printed

callVars == <<input, output, calls>>
sessionVars == <<pc, candidates, keep_order, tty, term, raw_term, restores, query,
                 state, filtered, old_query, old_state, redraw, frame, last_action,
                 result, printed>>
vars == <<callVars, sessionVars>>

\* ------------------------------------------------------------------ bounds
MaxPathLen == 4
MaxQueryLen == 3
MaxCandidates == 2
MaxContentLen == 4
MaxTextLen == 4
MaxWidth == 3
MaxArgs == 3

\* ------------------------------------------------------------- byte values
SEP == 47
UNDERSCORE == 95
DASH == 45
DOT == 46
SPACE == 32
LowerA == 97
LowerB == 98
UpperA == 65
ESC == 27
CR == 13
DEL == 127
LBRACKET == 91
UpperO == 79
UpperB == 66
UpperC == 67
UpperD == 68
DIGIT3 == 51
NL == 10
TILDE == 126

PathAlphabet == {LowerA, LowerB, UpperA, SEP}
QueryAlphabet == {LowerA, UpperA, SPACE}

RECURSIVE StringsUpTo(_, _)
StringsUpTo(alphabet, n) ==
    IF n = 0 THEN {<<>>}
    ELSE LET shorter == StringsUpTo(alphabet, n - 1)
         IN shorter \cup {Append(s, c) : s \in shorter, c \in alphabet}

Paths == StringsUpTo(PathAlphabet, MaxPathLen) \ {<<>>}
Queries == StringsUpTo(QueryAlphabet, MaxQueryLen)

\* ---------------------------------------------------------------- f64 ranks
RECURSIVE Gcd(_, _)
Gcd(a, b) == IF b = 0 THEN a ELSE Gcd(b, a % b)

RECURSIVE LcmUpTo(_)
LcmUpTo(n) == IF n <= 1 THEN 1 ELSE LET l == LcmUpTo(n - 1) IN (l * n) \div Gcd(l, n)

\* every division of rank_token is exact at this scale: the halvings, and the
\* coverage over the length of a display name, of MaxPathLen bytes at most or
\* of the 7 bytes of "a_b.txt"
Scale == 4 * LcmUpTo(IF MaxPathLen > 7 THEN MaxPathLen ELSE 7)

\* the f64 value of the integer x
F(x) == x * Scale

\* std::f64::MAX, above every rank the engine computes
MAX == F(1000000)

\* Option::None of an Option<usize>
None == -1

Min(S) == CHOOSE x \in S : \A y \in S : x <= y

\* Body(x) with x evaluated once, however many times Body uses it
Bind(x, Body(_)) == CHOOSE r \in {Body(v) : v \in {x}} : TRUE

\* ------------------------------------------------------------- filter.rs
NoName == [some |-> FALSE, val |-> <<>>]
SomeName(s) == [some |-> TRUE, val |-> s]

\* str::split / BufRead::split on one byte: the segments between delimiters,
\* empty ones included
Split(s, d) ==
    LET hits == {i \in 1..Len(s) : s[i] = d}
        \* the k-th delimiter; 0 and Len(s) + 1 stand for the two ends
        cut(k) == IF k = 0 THEN 0
                  ELSE IF k > Cardinality(hits) THEN Len(s) + 1
                  ELSE CHOOSE i \in hits : Cardinality({j \in hits : j < i}) = k - 1
    IN [k \in 1..(Cardinality(hits) + 1) |-> SubSeq(s, cut(k - 1) + 1, cut(k) - 1)]

\* Path::file_name on Unix: the last component of the path when it is a
\* normal one.  Empty components and "." components are skipped, except a
\* "." that begins a relative path; ".." and the leading "." are not normal.
file_name(path) ==
    LET segs == Split(path, SEP)
        kept == {i \in 1..Len(segs) :
                    /\ segs[i] # <<>>
                    /\ (segs[i] = <<DOT>> => i = 1)}
    IN IF kept = {} THEN NoName
       ELSE LET last == segs[CHOOSE i \in kept : \A j \in kept : j <= i]
            IN IF last = <<DOT, DOT>> \/ last = <<DOT>> THEN NoName
               ELSE SomeName(last)

\* one record of Candidate::collect
NewCandidate(path, plain) ==
    [path |-> path,
     name |-> IF ~plain THEN file_name(path) ELSE NoName,
     rank |-> F(0),
     ranges |-> <<>>]

\* the byte length of the UTF-8 encoding that begins with byte b, 0 when no
\* encoding begins with it
utf8_char_width(b) ==
    IF b < 128 THEN 1
    ELSE IF b >= 194 /\ b <= 223 THEN 2
    ELSE IF b >= 224 /\ b <= 239 THEN 3
    ELSE IF b >= 240 /\ b <= 244 THEN 4
    ELSE 0

\* the range of the second byte of an encoding that begins with byte b
utf8_second(b) ==
    IF b = 224 THEN 160..191
    ELSE IF b = 237 THEN 128..159
    ELSE IF b = 240 THEN 144..191
    ELSE IF b = 244 THEN 128..143
    ELSE 128..191

RECURSIVE is_utf8(_)
\* String::from_utf8 succeeds on the bytes s
is_utf8(s) ==
    IF s = <<>> THEN TRUE
    ELSE Bind(utf8_char_width(s[1]),
              LAMBDA w :
                 /\ w > 0
                 /\ Len(s) >= w
                 /\ w >= 2 => s[2] \in utf8_second(s[1])
                 /\ \A i \in 3..w : s[i] \in 128..191
                 /\ is_utf8(SubSeq(s, w + 1, Len(s))))

\* BufRead::split: the segments that end at a delimiter, and the rest of the
\* content when it is not empty
buf_split(content, delimiter) ==
    Bind(Split(content, delimiter),
         LAMBDA segs : IF segs[Len(segs)] = <<>> THEN SubSeq(segs, 1, Len(segs) - 1)
                       ELSE segs)

\* Candidate::collect where an empty segment yields a candidate too
collect_keep_empty(content, delimiter, plain) ==
    Bind(buf_split(content, delimiter),
         LAMBDA kept :
            IF \E i \in 1..Len(kept) : ~is_utf8(kept[i])
            THEN [kind |-> "panic", list |-> <<>>]
            ELSE [kind |-> "ok",
                  list |-> [i \in 1..Len(kept) |-> NewCandidate(kept[i], plain)]])

\* Candidate::collect: [kind |-> "ok" | "panic", list]; the expect on
\* String::from_utf8 panics on a segment that is not UTF-8
collect(content, delimiter, plain) ==
    Bind(SelectSeq(buf_split(content, delimiter), LAMBDA item : Len(item) # 0),
         LAMBDA kept :
            IF \E i \in 1..Len(kept) : ~is_utf8(kept[i])
            THEN [kind |-> "panic", list |-> <<>>]
            ELSE [kind |-> "ok",
                  list |-> [i \in 1..Len(kept) |-> NewCandidate(kept[i], plain)]])

DefaultRange == [start |-> 0, end |-> 0]

is_ascii_uppercase(c) == c >= 65 /\ c <= 90

to_ascii_lowercase(c) == IF is_ascii_uppercase(c) THEN c + 32 ELSE c

has_upper(q) == \E i \in 1..Len(q) : is_ascii_uppercase(q[i])

split_query(q) == Split(q, SPACE)

\* index_of without the fold to lowercase of the path byte
index_of_no_fold(slice, start_index, value) ==
    LET hits == {i \in start_index..(Len(slice) - 1) : slice[i + 1] = value}
    IN IF hits = {} THEN None ELSE Min(hits)

index_of(slice, start_index, value) ==
    LET hits == {i \in start_index..(Len(slice) - 1) :
                    to_ascii_lowercase(slice[i + 1]) = value}
    IN IF hits = {} THEN None ELSE Min(hits)

index_of_case_sensitive(slice, start_index, value) ==
    LET hits == {i \in start_index..(Len(slice) - 1) : slice[i + 1] = value}
    IN IF hits = {} THEN None ELSE Min(hits)

\* IndexIterator::next from position index: the next occurrence of chr
next_index(str, chr, index, smart_case) ==
    IF smart_case THEN index_of(str, index, chr)
    ELSE index_of_case_sensitive(str, index, chr)

\* is_start_of_word without the underscore
is_start_of_word_no_underscore(byte) == byte \in {SEP, DASH, DOT, SPACE}

is_start_of_word(byte) == byte \in {SEP, UNDERSCORE, DASH, DOT, SPACE}

NoMatch == [kind |-> "none", rank |-> 0, start |-> 0, end |-> 0]
PanicMatch == [kind |-> "panic", rank |-> 0, start |-> 0, end |-> 0]

RECURSIVE scan_chars(_, _, _, _, _, _, _)
\* the loop of scan_to_end over the characters of token
scan_chars(name, token, start_index, smart_case, rank, last_index, last_sequential) ==
    IF token = <<>>
    THEN [kind |-> "some", rank |-> rank, start |-> start_index, end |-> last_index]
    ELSE Bind(next_index(name, Head(token), last_index + 1, smart_case),
              LAMBDA index :
                 IF index = None THEN NoMatch
                 ELSE IF index = last_index + 1
                 THEN scan_chars(name, Tail(token), start_index, smart_case,
                                 IF ~last_sequential THEN rank + F(1) ELSE rank,
                                 index, TRUE)
                 ELSE scan_chars(name, Tail(token), start_index, smart_case,
                                 rank + (IF ~is_start_of_word(name[index]) THEN F(2) ELSE 0)
                                      + F(index - last_index),
                                 index, FALSE))

\* scan_to_end without its last assignment, matched.end = last_index
scan_to_end_end_unset(name, token, start_index, smart_case) ==
    IF start_index > 0 /\ start_index - 1 >= Len(name)
    THEN PanicMatch
    ELSE Bind(scan_chars(name, token, start_index, smart_case,
                         IF start_index > 0 /\ ~is_start_of_word(name[start_index])
                         THEN F(1) + F(2) ELSE F(1),
                         start_index, FALSE),
              LAMBDA matched : IF matched.kind = "some"
                               THEN [matched EXCEPT !.end = 0] ELSE matched)

scan_to_end(name, token, start_index, smart_case) ==
    IF start_index > 0 /\ start_index - 1 >= Len(name)
    THEN PanicMatch
    ELSE scan_chars(name, token, start_index, smart_case,
                    IF start_index > 0 /\ ~is_start_of_word(name[start_index])
                    THEN F(1) + F(2) ELSE F(1),
                    start_index, FALSE)

\* the body of the for loop of rank_token: best after the alignment matched
better(best, matched, offs) ==
    IF best.rank = MAX \/ matched.rank < best.rank
    THEN [best EXCEPT !.rank = matched.rank,
                      !.range = [start |-> matched.start + offs,
                                 end |-> matched.end + offs]]
    ELSE best

RECURSIVE scan_starts(_, _, _, _, _, _, _)
\* the for loop of rank_token over the IndexIterator of str: every occurrence
\* of the token's first character from index on, until an alignment fails.
\* best is [kind, rank, range]; offs is added to the recorded offsets.
scan_starts(str, name, token, smart_case, index, offs, best) ==
    Bind(next_index(str, token[1], index, smart_case),
         LAMBDA start_index :
            IF start_index = None THEN best
            ELSE Bind(scan_to_end(name, Tail(token), start_index, smart_case),
                      LAMBDA matched :
                         IF matched.kind = "panic" THEN [best EXCEPT !.kind = "panic"]
                         ELSE IF matched.kind = "none" THEN best
                         ELSE Bind(better(best, matched, offs),
                                   LAMBDA new_best :
                                      scan_starts(str, name, token, smart_case,
                                                  start_index + 1, offs, new_best))))

\* rank_token, lines 216-226: the score of a match in the display name
scale_by_coverage(best_rank, token_len, name_len) ==
    IF token_len = name_len THEN (best_rank \div 2) \div 2
    ELSE ((best_rank \div 2) * (name_len - token_len)) \div name_len

\* rank_token, lines 227-245: the retry on the full string
retry_on_path(path, token, smart_case, first) ==
    Bind(scan_starts(path, path, token, smart_case, 0, 0, first),
         LAMBDA second :
            IF second.kind = "panic" THEN second
            ELSE IF second.rank = MAX THEN [second EXCEPT !.kind = "none"]
            ELSE second)

\* rank_token: [kind |-> "some" | "none" | "panic", rank, range]
rank_token(path, name, range, token, smart_case) ==
    IF token = <<>>
    THEN [kind |-> "panic", rank |-> MAX, range |-> range]
    ELSE Bind(IF name.some
              THEN scan_starts(path, name.val, token, smart_case, 0,
                               Len(path) - Len(name.val),
                               [kind |-> "some", rank |-> MAX, range |-> range])
              ELSE [kind |-> "some", rank |-> MAX, range |-> range],
              LAMBDA first :
                 IF first.kind = "panic" THEN first
                 ELSE IF first.rank < MAX
                 THEN [first EXCEPT
                          !.rank = scale_by_coverage(@, Len(token), Len(name.val))]
                 ELSE retry_on_path(path, token, smart_case, first))

RECURSIVE rank_tokens(_, _, _, _)
\* the loop of rank_candidate from token i on:
\* [kind |-> "true" | "false" | "panic", candidate]
rank_tokens(candidate, query_tokens, smart_case, i) ==
    IF i > Len(query_tokens) \/ i > Len(candidate.ranges)
    THEN [kind |-> "true", candidate |-> candidate]
    ELSE Bind(rank_token(candidate.path, candidate.name, candidate.ranges[i],
                         query_tokens[i], smart_case),
              LAMBDA r :
                 IF r.kind = "panic" THEN [kind |-> "panic", candidate |-> candidate]
                 ELSE IF r.kind = "none" THEN [kind |-> "false", candidate |-> candidate]
                 ELSE Bind([candidate EXCEPT !.rank = @ + r.rank, !.ranges[i] = r.range],
                           LAMBDA ranked : rank_tokens(ranked, query_tokens, smart_case,
                                                       i + 1)))

\* rank_candidate where a token that does not score is skipped
RECURSIVE skip_failed_tokens(_, _, _, _)
skip_failed_tokens(candidate, query_tokens, smart_case, i) ==
    IF i > Len(query_tokens) \/ i > Len(candidate.ranges)
    THEN [kind |-> "true", candidate |-> candidate]
    ELSE Bind(rank_token(candidate.path, candidate.name, candidate.ranges[i],
                         query_tokens[i], smart_case),
              LAMBDA r :
                 IF r.kind = "panic" THEN [kind |-> "panic", candidate |-> candidate]
                 ELSE IF r.kind = "none"
                 THEN skip_failed_tokens(candidate, query_tokens, smart_case, i + 1)
                 ELSE Bind([candidate EXCEPT !.rank = @ + r.rank, !.ranges[i] = r.range],
                           LAMBDA ranked : skip_failed_tokens(ranked, query_tokens,
                                                              smart_case, i + 1)))

rank_candidate_any_token(candidate, query_tokens, smart_case) ==
    Bind([candidate EXCEPT !.rank = F(0)],
         LAMBDA c : skip_failed_tokens(c, query_tokens, smart_case, 1))

rank_candidate(candidate, query_tokens, smart_case) ==
    Bind([candidate EXCEPT !.rank = F(0)],
         LAMBDA c : rank_tokens(c, query_tokens, smart_case, 1))

\* Ord::cmp of two strings, byte by byte: -1, 0 or 1
LexCmp(a, b) ==
    LET differ == {i \in 1..Len(a) : i > Len(b) \/ a[i] # b[i]}
    IN IF differ = {}
       THEN (IF Len(a) = Len(b) THEN 0 ELSE -1)
       ELSE LET i == Min(differ)
            IN IF i > Len(b) THEN 1 ELSE IF a[i] < b[i] THEN -1 ELSE 1

\* the comparator without its tie-breaks on the length and the path
compare_rank_only(a, b) ==
    IF a.rank < b.rank THEN -1 ELSE IF a.rank > b.rank THEN 1 ELSE 0

\* the comparator of the sort_by in rank_candidates: -1, 0 or 1
compare(a, b) ==
    IF a.rank < b.rank THEN -1
    ELSE IF a.rank > b.rank THEN 1
    ELSE IF Len(a.path) < Len(b.path) THEN -1
    ELSE IF Len(a.path) > Len(b.path) THEN 1
    ELSE LexCmp(a.path, b.path)

\* Vec::sort_by with the comparator above, a stable sort: the element at
\* position i moves behind those that compare less, and behind those that
\* compare equal and stood before it
sort_by(list) ==
    LET before(i) == {j \in 1..Len(list) :
                         \/ compare(list[j], list[i]) < 0
                         \/ (compare(list[j], list[i]) = 0 /\ j < i)}
    IN [k \in 1..Len(list) |->
          list[CHOOSE i \in 1..Len(list) : Cardinality(before(i)) = k - 1]]

RECURSIVE rank_each(_, _, _, _)
\* the for loop of rank_candidates: [kind |-> "ok" | "panic", list]
rank_each(cands, query_tokens, smart_case, ranked) ==
    IF cands = <<>> THEN [kind |-> "ok", list |-> ranked]
    ELSE Bind(rank_candidate([Head(cands) EXCEPT
                                 !.ranges = [i \in 1..Len(query_tokens) |-> DefaultRange]],
                             query_tokens, smart_case),
              LAMBDA r :
                 IF r.kind = "panic" THEN [kind |-> "panic", list |-> <<>>]
                 ELSE rank_each(Tail(cands), query_tokens, smart_case,
                                IF r.kind = "true" THEN Append(ranked, r.candidate)
                                ELSE ranked))

\* rank_candidates sorting whatever keep_order says
rank_and_sort_always(cands, q, keep, out) ==
    IF out.kind = "ok" THEN [out EXCEPT !.list = sort_by(out.list)] ELSE out

\* the body of rank_candidates after the case of the empty query
rank_and_sort(cands, q, keep, out) ==
    IF out.kind = "ok" /\ ~keep THEN [out EXCEPT !.list = sort_by(out.list)] ELSE out

\* rank_candidates where the empty query keeps every candidate
rank_candidates_match_all(cands, q, keep) ==
    Bind(IF Len(q) > 0
         THEN rank_each(cands, split_query(q), ~has_upper(q), <<>>)
         ELSE [kind |-> "ok", list |-> cands],
         LAMBDA out : rank_and_sort(cands, q, keep, out))

\* rank_candidates: [kind |-> "ok" | "panic", list]
rank_candidates(cands, q, keep) ==
    Bind(IF Len(q) > 0
         THEN rank_each(cands, split_query(q), ~has_upper(q), <<>>)
         ELSE [kind |-> "ok", list |-> <<>>],
         LAMBDA out : rank_and_sort(cands, q, keep, out))

\* ------------------------------------------------------------------ ui.rs
\* a termios value: the flags Terminal::new clears and c_cc[VMIN]
Termios(flags, vmin) ==
    [ICRNL |-> flags, ICANON |-> flags, ECHO |-> flags, ISIG |-> flags, VMIN |-> vmin]

\* the attributes of a terminal in its usual line mode
CookedTermios == Termios(TRUE, 1)

\* the fields of a Terminal that does not exist yet
NoTermios == Termios(FALSE, 0)

\* Terminal::new, lines 71-74: raw_term is term with the four flags cleared
make_raw(t) ==
    [t EXCEPT !.ICRNL = FALSE, !.ICANON = FALSE, !.ECHO = FALSE, !.ISIG = FALSE]

\* nodelay that sets VMIN to 0 whatever it is asked
nodelay_stuck(t, on) == [t EXCEPT !.VMIN = 0]

\* Terminal::nodelay: the raw_term it writes and hands to tcsetattr
nodelay(t, on) == [t EXCEPT !.VMIN = IF on THEN 0 ELSE 1]

Key(kind, byte) == [kind |-> kind, byte |-> byte]
NoKey == Key("None", 0)

\* a read that fails or reports the end of the input
ReadErr == -1

iscntrl(byte) == byte \in 0..31 \/ byte = 127
isprint(byte) == byte \in 32..126

read_delete(byte) == IF byte = TILDE THEN Key("Delete", 0) ELSE Key("Esc", 0)

\* Terminal::read_key.  first is the byte the blocking read delivers (or
\* ReadErr), avail the bytes the terminal holds when the two bytes after an
\* ESC are read without blocking, third the byte read_delete's read delivers.
\* [key, raw_term, vmins]: the key (NoKey for None), raw_term afterwards and
\* the VMIN values applied to the terminal on the way.
read_key(first, avail, third, raw) ==
    IF first = ReadErr THEN [key |-> NoKey, raw_term |-> raw, vmins |-> <<>>]
    ELSE IF first = ESC
    THEN LET out == [raw_term |-> nodelay(nodelay(raw, TRUE), FALSE),
                     vmins |-> <<nodelay(raw, TRUE).VMIN,
                                 nodelay(nodelay(raw, TRUE), FALSE).VMIN>>]
         IN IF Len(avail) < 2 THEN [key |-> NoKey] @@ out
            ELSE IF avail[1] \in {UpperO, LBRACKET}
            THEN [key |-> CASE avail[2] = UpperA -> Key("Up", 0)
                            [] avail[2] = UpperB -> Key("Down", 0)
                            [] avail[2] = UpperC -> Key("Right", 0)
                            [] avail[2] = UpperD -> Key("Left", 0)
                            [] avail[2] = DIGIT3 -> read_delete(third)
                            [] OTHER -> Key("Esc", 0)] @@ out
            ELSE [key |-> Key("Esc", 0)] @@ out
    ELSE [key |-> IF first = CR THEN Key("Enter", 0)
                  ELSE IF first = DEL THEN Key("Backspace", 0)
                  ELSE IF iscntrl(first) THEN Key("Control", first)
                  ELSE IF isprint(first) THEN Key("Character", first)
                  ELSE Key("Esc", 0),
          raw_term |-> raw, vmins |-> <<>>]

\* ctrl(ch): ch & 0x1f
ctrl(ch) == ch % 32

Action(kind, byte) == [kind |-> kind, byte |-> byte]

ctrl_to_action(key) ==
    CASE key = ctrl(99) -> Action("Close", 0)
      [] key = ctrl(119) -> Action("DeleteWord", 0)
      [] key = ctrl(117) -> Action("DeleteLine", 0)
      [] key = ctrl(104) -> Action("Backspace", 0)
      [] key = ctrl(97) -> Action("CursorLeftMost", 0)
      [] key = ctrl(101) -> Action("CursorRightMost", 0)
      [] key = ctrl(100) -> Action("Delete", 0)
      [] key = ctrl(102) -> Action("CursorRight", 0)
      [] key = ctrl(98) -> Action("CursorLeft", 0)
      [] key = ctrl(112) \/ key = ctrl(107) -> Action("LineUp", 0)
      [] key = ctrl(110) \/ key = ctrl(106) -> Action("LineDown", 0)
      [] OTHER -> Action("Pass", 0)

key_to_action(key) ==
    CASE key.kind = "Character" -> Action("Byte", key.byte)
      [] key.kind = "Control" -> ctrl_to_action(key.byte)
      [] key.kind = "Backspace" -> Action("Backspace", 0)
      [] key.kind = "Delete" -> Action("Delete", 0)
      [] key.kind = "Up" -> Action("LineUp", 0)
      [] key.kind = "Down" -> Action("LineDown", 0)
      [] key.kind = "Left" -> Action("CursorLeft", 0)
      [] key.kind = "Right" -> Action("CursorRight", 0)
      [] key.kind = "Enter" -> Action("Select", 0)
      [] key.kind = "Esc" -> Action("Close", 0)

\* String::insert(idx, ch) of a one-byte character
insert(s, idx, byte) == SubSeq(s, 1, idx) \o <<byte>> \o SubSeq(s, idx + 1, Len(s))

\* String::remove(idx)
remove(s, idx) == SubSeq(s, 1, idx) \o SubSeq(s, idx + 2, Len(s))

\* String::pop
pop(s) == SubSeq(s, 1, Len(s) - 1)

\* the match of run where Backspace leaves the cursor where it was
apply_action_cursor_stays(action, q, st) ==
    CASE action.kind = "Byte" ->
            [query |-> insert(q, st.cursor, action.byte),
             state |-> [st EXCEPT !.cursor = @ + 1]]
      [] action.kind = "Backspace" ->
            IF Len(q) > 0 /\ st.cursor = Len(q)
            THEN [query |-> pop(q), state |-> st]
            ELSE IF Len(q) > 0 /\ st.cursor > 0
            THEN [query |-> remove(q, st.cursor), state |-> st]
            ELSE [query |-> q, state |-> st]
      [] OTHER -> [query |-> q, state |-> st]

\* the match of run on the action of a key, lines 118-139: the query and
\* the state afterwards (Close, which leaves the loop, is not handled here)
apply_action(action, q, st) ==
    CASE action.kind = "Byte" ->
            [query |-> insert(q, st.cursor, action.byte),
             state |-> [st EXCEPT !.cursor = @ + 1]]
      [] action.kind = "Backspace" ->
            IF Len(q) > 0 /\ st.cursor = Len(q)
            THEN [query |-> pop(q), state |-> [st EXCEPT !.cursor = @ - 1]]
            ELSE IF Len(q) > 0 /\ st.cursor > 0
            THEN [query |-> remove(q, st.cursor), state |-> [st EXCEPT !.cursor = @ - 1]]
            ELSE [query |-> q, state |-> st]
      [] OTHER -> [query |-> q, state |-> st]

RECURSIVE shrink_chars(_, _, _, _)
\* the loop of shrink_str over s.chars().enumerate(): idx counts the
\* characters passed, last_width their bytes
shrink_chars(s, width, idx, last_width) ==
    IF last_width >= Len(s) THEN SubSeq(s, 1, last_width)
    ELSE IF idx > width THEN SubSeq(s, 1, last_width)
    ELSE shrink_chars(s, width, idx + 1, last_width + utf8_char_width(s[last_width + 1]))

\* shrink_str(s, width) on a str, which is UTF-8
shrink_str(s, width) == shrink_chars(s, width, 0, 0)

\* the builds of the program: debug_assert! is compiled in the debug build only
Builds == {"debug", "release"}

RECURSIVE iter_ranges(_, _, _, _, _, _, _)
\* draw_candidate's for loop over IterRanges::new(ranges.iter(), path.len()):
\* last is ranges[k] (None past the end) and start is self.start; each
\* (flag, slice) that next returns is sliced out of path, which panics when
\* the slice runs backwards or past the end, and so does a failed
\* debug_assert!.  [kind |-> "ok" | "panic", segments]
iter_ranges(ranges, k, start, stop, path, build, segments) ==
    IF start >= stop THEN [kind |-> "ok", segments |-> segments]
    ELSE IF k <= Len(ranges)
    THEN IF build = "debug" /\ ~(start <= ranges[k].start /\ ranges[k].start < ranges[k].end + 1)
         THEN [kind |-> "panic", segments |-> segments]
         ELSE Bind(IF start = ranges[k].start
                   THEN [flag |-> TRUE, start |-> ranges[k].start,
                         end |-> Min({ranges[k].end + 1, stop})]
                   ELSE [flag |-> FALSE, start |-> start, end |-> ranges[k].start],
                   LAMBDA out :
                      IF out.start > out.end \/ out.end > Len(path)
                      THEN [kind |-> "panic", segments |-> Append(segments, out)]
                      ELSE iter_ranges(ranges, IF out.flag THEN k + 1 ELSE k, out.end,
                                       stop, path, build, Append(segments, out)))
    ELSE [kind |-> "ok",
          segments |-> Append(segments, [flag |-> FALSE, start |-> start, end |-> stop])]

\* draw_candidate, lines 149-166: what is written of the candidate; a
\* candidate without ranges is written whole
draw_candidate(candidate, width, build) ==
    Bind(shrink_str(candidate.path, width),
         LAMBDA path :
            IF Len(candidate.ranges) = 0
            THEN [kind |-> "ok", path |-> path, segments |-> <<>>]
            ELSE [path |-> path] @@
                 iter_ranges(candidate.ranges, 1, 0, Len(path), path, build, <<>>))

\* Terminal::draw, lines 178-185: the lines of the viewport are drawn, on a
\* terminal with more rows than there are candidates
draw(list, width, build) ==
    IF \E i \in 1..Len(list) : draw_candidate(list[i], width, build).kind = "panic"
    THEN "panic" ELSE "ok"

\* ---------------------------------------------------------------- main.rs
\* the options of Config::parse, as the bytes of the argument
ArgH == <<45, 104>>                                             \* "-h"
ArgHelp == <<45, 45, 104, 101, 108, 112>>                       \* "--help"
ArgV == <<45, 118>>                                             \* "-v"
ArgVersion == <<45, 45, 118, 101, 114, 115, 105, 111, 110>>     \* "--version"
ArgK == <<45, 107>>                                             \* "-k"
ArgKeepOrder == <<45, 45, 107, 101, 101, 112, 45, 111, 114, 100, 101, 114>>
ArgP == <<45, 112>>                                             \* "-p"
ArgPlain == <<45, 45, 112, 108, 97, 105, 110>>                  \* "--plain"
ArgL == <<45, 108>>                                             \* "-l"
ArgLines == <<45, 45, 108, 105, 110, 101, 115>>                 \* "--lines"
ArgF == <<45, 102>>                                             \* "-f"
ArgFilter == <<45, 45, 102, 105, 108, 116, 101, 114>>           \* "--filter"

\* Config::default
DefaultConfig ==
    [help |-> FALSE, version |-> FALSE, skip_ui |-> FALSE, keep_order |-> FALSE,
     lines |-> 10, plain |-> FALSE, query |-> <<>>]

RECURSIVE decimal(_)
\* the number that the decimal digits s write
decimal(s) == IF s = <<>> THEN 0 ELSE 10 * decimal(SubSeq(s, 1, Len(s) - 1)) + (s[Len(s)] - 48)

\* str::parse::<usize>: an optional '+', then one decimal digit or more;
\* [ok, val].  The values parsed here stay far below usize::MAX.
parse_usize(s) ==
    LET digits == IF s # <<>> /\ s[1] = 43 THEN Tail(s) ELSE s
    IN IF digits = <<>> \/ \E i \in 1..Len(digits) : digits[i] \notin 48..57
       THEN [ok |-> FALSE, val |-> 0]
       ELSE [ok |-> TRUE, val |-> decimal(digits)]

ParseErr(config) == [kind |-> "err", config |-> config]

RECURSIVE parse_args_no_skip(_, _, _)
\* the loop of Config::parse without its skip of the value of -l and -f
parse_args_no_skip(args, idx, config) ==
    IF idx > Len(args) THEN [kind |-> "ok", config |-> config]
    ELSE LET arg == args[idx]
         IN IF arg \in {ArgH, ArgHelp}
            THEN [kind |-> "ok", config |-> [config EXCEPT !.help = TRUE]]
            ELSE IF arg \in {ArgV, ArgVersion}
            THEN [kind |-> "ok", config |-> [config EXCEPT !.version = TRUE]]
            ELSE IF arg \in {ArgK, ArgKeepOrder}
            THEN parse_args_no_skip(args, idx + 1, [config EXCEPT !.keep_order = TRUE])
            ELSE IF arg \in {ArgP, ArgPlain}
            THEN parse_args_no_skip(args, idx + 1, [config EXCEPT !.plain = TRUE])
            ELSE IF arg \in {ArgL, ArgLines}
            THEN IF idx + 1 <= Len(args)
                 THEN Bind(parse_usize(args[idx + 1]),
                           LAMBDA n :
                              IF ~n.ok \/ n.val = 0 THEN ParseErr(config)
                              ELSE parse_args_no_skip(args, idx + 1,
                                                      [config EXCEPT !.lines = n.val]))
                 ELSE ParseErr(config)
            ELSE IF arg \in {ArgF, ArgFilter}
            THEN IF idx + 1 <= Len(args)
                 THEN parse_args_no_skip(args, idx + 1,
                                         [config EXCEPT !.skip_ui = TRUE,
                                                        !.query = args[idx + 1]])
                 ELSE ParseErr(config)
            ELSE ParseErr(config)

RECURSIVE parse_args(_, _, _)
\* the loop of Config::parse from argument idx on; args holds the arguments
\* after the name of the program, so args[idx] is the source's args[idx]:
\* [kind |-> "ok" | "err", config]
parse_args(args, idx, config) ==
    IF idx > Len(args) THEN [kind |-> "ok", config |-> config]
    ELSE LET arg == args[idx]
         IN IF arg \in {ArgH, ArgHelp}
            THEN [kind |-> "ok", config |-> [config EXCEPT !.help = TRUE]]
            ELSE IF arg \in {ArgV, ArgVersion}
            THEN [kind |-> "ok", config |-> [config EXCEPT !.version = TRUE]]
            ELSE IF arg \in {ArgK, ArgKeepOrder}
            THEN parse_args(args, idx + 1, [config EXCEPT !.keep_order = TRUE])
            ELSE IF arg \in {ArgP, ArgPlain}
            THEN parse_args(args, idx + 1, [config EXCEPT !.plain = TRUE])
            ELSE IF arg \in {ArgL, ArgLines}
            THEN IF idx + 1 <= Len(args)
                 THEN Bind(parse_usize(args[idx + 1]),
                           LAMBDA n :
                              IF ~n.ok \/ n.val = 0 THEN ParseErr(config)
                              ELSE parse_args(args, idx + 2,
                                              [config EXCEPT !.lines = n.val]))
                 ELSE ParseErr(config)
            ELSE IF arg \in {ArgF, ArgFilter}
            THEN IF idx + 1 <= Len(args)
                 THEN parse_args(args, idx + 2,
                                 [config EXCEPT !.skip_ui = TRUE, !.query = args[idx + 1]])
                 ELSE ParseErr(config)
            ELSE ParseErr(config)

\* Config::parse(args), args without the name of the program
parse(args) == parse_args(args, 1, DefaultConfig)

\* ------------------------------------------------- the library calls, alone
Pending == [kind |-> "pending", list |-> <<>>]

\* the session does not run while a library call is studied
SessionIdle ==
    /\ pc = "idle"
    /\ candidates = <<>>
    /\ keep_order = FALSE
    /\ tty = CookedTermios
    /\ term = NoTermios
    /\ raw_term = NoTermios
    /\ restores = 0
    /\ query = <<>>
    /\ state = [cursor |-> 0, selected |-> 0]
    /\ filtered = <<>>
    /\ old_query = <<>>
    /\ old_state = [cursor |-> 0, selected |-> 0]
    /\ redraw = FALSE
    /\ frame = [drawn |-> FALSE]
    /\ last_action = Action("Pass", 0)
    /\ result = [kind |-> "none", val |-> 0]
    /\ printed = <<"nothing", 0>>

RankInit ==
    /\ \E p \in Paths, q \in Queries, k \in BOOLEAN, plain \in BOOLEAN :
          input = [candidates |-> <<NewCandidate(p, plain)>>,
                   query |-> q, keep_order |-> k, plain |-> plain]
    /\ output = Pending
    /\ calls = 0
    /\ SessionIdle

\* main's filter mode: rank_candidates(candidates, &config.query, config.keep_order)
RankCandidates ==
    /\ calls = 0
    /\ "candidates" \in DOMAIN input
    /\ output' = rank_candidates(input.candidates, input.query, input.keep_order)
    /\ calls' = 1
    /\ UNCHANGED <<input, sessionVars>>

\* a caller of the library ranks an earlier result again, with the same query
RerankOutput ==
    /\ calls = 1
    /\ "candidates" \in DOMAIN input
    /\ output.kind = "ok"
    /\ output.list # <<>>
    /\ input' = [input EXCEPT !.candidates = output.list]
    /\ output' = rank_candidates(output.list, input.query, input.keep_order)
    /\ calls' = 2
    /\ UNCHANGED sessionVars

RankNext == RankCandidates \/ RerankOutput

SpecRank == RankInit /\ [][RankNext]_vars

\* the session draws a candidate that rank_candidates returned, in a window
\* of some width
DrawCandidate ==
    /\ calls = 1
    /\ "candidates" \in DOMAIN input
    /\ output.kind = "ok"
    /\ \E i \in 1..Len(output.list), width \in 0..MaxWidth, build \in Builds :
          output' = [kind |-> "drawn", list |-> output.list, line |-> i, width |-> width,
                     build |-> build,
                     drawn |-> draw_candidate(output.list[i], width, build)]
    /\ calls' = 2
    /\ UNCHANGED <<input, sessionVars>>

DrawNext == RankCandidates \/ DrawCandidate

SpecDraw == RankInit /\ [][DrawNext]_vars

\* the lists of at most n elements of S
RECURSIVE ListsUpTo(_, _)
ListsUpTo(S, n) ==
    IF n = 0 THEN {<<>>}
    ELSE LET shorter == ListsUpTo(S, n - 1)
         IN shorter \cup {Append(l, x) : l \in shorter, x \in S}

\* several candidates ranked together: the paths and queries are chosen so
\* that ranks differ, tie, and tie down to the length of the path
SortPaths == {<<LowerA>>, <<LowerB>>, <<LowerA, LowerB>>, <<LowerB, LowerA>>,
              <<LowerA, LowerA>>, <<LowerA, LowerA, LowerB>>, <<UpperA, LowerB>>}
SortQueries == {<<LowerA>>, <<LowerB>>, <<LowerA, LowerA>>, <<LowerA, LowerB>>,
                <<LowerA, SPACE, LowerB>>, <<UpperA>>}

SortInit ==
    /\ \E paths \in ListsUpTo(SortPaths, MaxCandidates) \ {<<>>}, q \in SortQueries,
          k \in BOOLEAN, plain \in BOOLEAN :
          input = [candidates |-> [i \in 1..Len(paths) |-> NewCandidate(paths[i], plain)],
                   query |-> q, keep_order |-> k, plain |-> plain]
    /\ output = Pending
    /\ calls = 0
    /\ SessionIdle

\* a caller ranks the same candidates again, standing in another order; the
\* result of the first call is kept in output.earlier
RankPermutation ==
    /\ calls = 1
    /\ "candidates" \in DOMAIN input
    /\ output.kind = "ok"
    /\ \E f \in Permutations(1..Len(input.candidates)) :
          LET permuted == [i \in 1..Len(input.candidates) |-> input.candidates[f[i]]]
          IN /\ input' = [input EXCEPT !.candidates = permuted]
             /\ output' = Bind(rank_candidates(permuted, input.query, input.keep_order),
                                LAMBDA r : [kind |-> r.kind, list |-> r.list,
                                            earlier |-> output.list])
    /\ calls' = 2
    /\ UNCHANGED sessionVars

SortNext == RankCandidates \/ RankPermutation

SpecSort == SortInit /\ [][SortNext]_vars

\* the bytes of a content read from stdin: a letter, the path separator, a
\* dot, the two delimiters, and the two bytes of a two-byte UTF-8 character
ContentAlphabet == {LowerA, SEP, DOT, NL, SPACE, 195, 169}
Contents == StringsUpTo(ContentAlphabet, MaxContentLen)

CollectInit ==
    /\ \E content \in Contents, delimiter \in {NL, SPACE}, plain \in BOOLEAN :
          input = [content |-> content, delimiter |-> delimiter, plain |-> plain]
    /\ output = Pending
    /\ calls = 0
    /\ SessionIdle

\* main, line 112: Candidate::collect(stdin, b'\n', config.plain)
Collect ==
    /\ calls = 0
    /\ "content" \in DOMAIN input
    /\ output' = collect(input.content, input.delimiter, input.plain)
    /\ calls' = 1
    /\ UNCHANGED <<input, sessionVars>>

CollectNext == Collect

SpecCollect == CollectInit /\ [][CollectNext]_vars

\* the texts drawn: one-byte letters and a two-byte character
TextAlphabet == {LowerA, LowerB, 195, 169}
Texts == {s \in StringsUpTo(TextAlphabet, MaxTextLen) : is_utf8(s)}

ShrinkInit ==
    /\ \E s \in Texts, width \in 0..MaxWidth : input = [s |-> s, width |-> width]
    /\ output = Pending
    /\ calls = 0
    /\ SessionIdle

\* draw_candidate, line 149: shrink_str(&candidate.path, width)
ShrinkStr ==
    /\ calls = 0
    /\ "width" \in DOMAIN input
    /\ output' = [kind |-> "ok", list |-> <<>>,
                  text |-> shrink_str(input.s, input.width)]
    /\ calls' = 1
    /\ UNCHANGED <<input, sessionVars>>

ShrinkNext == ShrinkStr

SpecShrink == ShrinkInit /\ [][ShrinkNext]_vars

\* the arguments of a command line: every option, and the values "12", "0",
\* "-10", "+5" and "asdf"
Arguments == {ArgH, ArgHelp, ArgV, ArgVersion, ArgK, ArgKeepOrder, ArgP, ArgPlain,
              ArgL, ArgLines, ArgF, ArgFilter,
              <<49, 50>>, <<48>>, <<45, 49, 48>>, <<43, 53>>, <<97, 115, 100, 102>>}

ParseInit ==
    /\ \E args \in ListsUpTo(Arguments, MaxArgs) : input = [args |-> args]
    /\ output = Pending
    /\ calls = 0
    /\ SessionIdle

\* main, line 104: Config::parse(&args)
Parse ==
    /\ calls = 0
    /\ "args" \in DOMAIN input
    /\ output' = parse(input.args)
    /\ calls' = 1
    /\ UNCHANGED <<input, sessionVars>>

ParseNext == Parse

SpecParse == ParseInit /\ [][ParseNext]_vars

\* one call of scan_to_end: the names and the rest of the token, with
\* letters of both cases and a boundary character; the start lies in the name,
\* and smart_case is only set for a token without uppercase letter
ScanNames == StringsUpTo({LowerA, UpperA, UNDERSCORE}, MaxPathLen) \ {<<>>}
ScanTokens == StringsUpTo({LowerA, UpperA}, MaxQueryLen - 1)

\* the candidates "a_b.txt" and "xab.txt"
BoundaryCandidates ==
    {<<<<97, 95, 98, 46, 116, 120, 116>>, <<120, 97, 98, 46, 116, 120, 116>>>>,
     <<<<120, 97, 98, 46, 116, 120, 116>>, <<97, 95, 98, 46, 116, 120, 116>>>>}

ScanInit ==
    /\ \/ \E name \in ScanNames, token \in ScanTokens, smart_case \in BOOLEAN :
          \E start_index \in 0..(Len(name) - 1) :
             /\ smart_case => ~has_upper(token)
             /\ input = [name |-> name, token |-> token, start_index |-> start_index,
                         smart_case |-> smart_case]
       \/ \E paths \in BoundaryCandidates, k \in BOOLEAN, plain \in BOOLEAN :
             input = [candidates |-> [i \in 1..2 |-> NewCandidate(paths[i], plain)],
                      query |-> <<LowerA, LowerB>>, keep_order |-> k, plain |-> plain]
    /\ output = Pending
    /\ calls = 0
    /\ SessionIdle

\* rank_token, lines 202 and 230: scan_to_end(name, &token[1..], start_index, smart_case)
ScanToEnd ==
    /\ calls = 0
    /\ "start_index" \in DOMAIN input
    /\ output' = [kind |-> "ok", list |-> <<>>,
                  matched |-> scan_to_end(input.name, input.token, input.start_index,
                                          input.smart_case)]
    /\ calls' = 1
    /\ UNCHANGED <<input, sessionVars>>

ScanNext == ScanToEnd \/ RankCandidates

SpecScan == ScanInit /\ [][ScanNext]_vars

\* the bytes a terminal may deliver first, and after an ESC
FirstBytes == {ESC, CR, DEL, ctrl(99), ctrl(104), LowerA, UpperA, SPACE, 200}
FollowBytes == {LBRACKET, UpperO, UpperA, UpperB, UpperC, UpperD, DIGIT3, TILDE, LowerA}
\* what the terminal may hold when the two bytes after an ESC are read
AvailableFrom(S) == {<<>>} \cup {<<a>> : a \in S} \cup {<<a, b>> : a \in S, b \in S}
AvailableAfterEsc == AvailableFrom(FollowBytes)

KeyInit ==
    /\ \E first \in FirstBytes \cup {ReadErr}, avail \in AvailableAfterEsc,
          third \in {TILDE, LowerA, ReadErr} :
          input = [first |-> first, avail |-> avail, third |-> third]
    /\ output = Pending
    /\ calls = 0
    /\ SessionIdle

\* one call of Terminal::read_key on a terminal in raw mode
ReadKeyCall ==
    /\ calls = 0
    /\ "first" \in DOMAIN input
    /\ output' = read_key(input.first, input.avail, input.third, make_raw(CookedTermios))
    /\ calls' = 1
    /\ UNCHANGED <<input, sessionVars>>

KeyNext == ReadKeyCall

SpecKey == KeyInit /\ [][KeyNext]_vars

\* ------------------------------------------------- the interactive session
\* the paths the session's candidates are made of
SessionPaths == {<<LowerA>>, <<LowerB>>, <<LowerB, SEP, LowerA>>}

\* the bytes the terminal may deliver to the session
SessionBytes == {ESC, CR, DEL, ctrl(99), ctrl(104), ctrl(110), LowerA, SPACE}

SessionFollowBytes == {LBRACKET, UpperB, DIGIT3, LowerA}

DefaultState == [cursor |-> 0, selected |-> 0]
NoResult == [kind |-> "none", val |-> 0]

\* main, lines 112-118: the candidates are collected and are not empty
Init ==
    /\ input = <<>>
    /\ output = Pending
    /\ calls = 0
    /\ pc = "new"
    /\ \E paths \in ListsUpTo(SessionPaths, MaxCandidates) \ {<<>>}, plain \in BOOLEAN :
          candidates = [i \in 1..Len(paths) |-> NewCandidate(paths[i], plain)]
    /\ keep_order \in BOOLEAN
    /\ tty = CookedTermios
    /\ term = NoTermios
    /\ raw_term = NoTermios
    /\ restores = 0
    /\ query = <<>>
    /\ state = DefaultState
    /\ filtered = <<>>
    /\ old_query = <<>>
    /\ old_state = DefaultState
    /\ redraw = FALSE
    /\ frame = [drawn |-> FALSE]
    /\ last_action = Action("Pass", 0)
    /\ result = NoResult
    /\ printed = <<"nothing", 0>>

\* Terminal::new: the attributes are captured, then the terminal is switched
\* to raw mode; when the terminal cannot be opened or queried, main returns
\* the error and the terminal is left as it was
NewTerminal ==
    /\ pc = "new"
    /\ \/ /\ term' = tty
          /\ raw_term' = make_raw(tty)
          /\ tty' = make_raw(tty)
          /\ pc' = "run"
          /\ UNCHANGED result
       \/ /\ pc' = "exit"
          /\ result' = [kind |-> "Err", val |-> 0]
          /\ UNCHANGED <<tty, term, raw_term>>
    /\ UNCHANGED <<callVars, candidates, keep_order, restores, query, state, filtered,
                   old_query, old_state, redraw, frame, last_action, printed>>

\* Terminal::run, lines 84-95: the locals are set up and the viewport is
\* reserved, which fails when the terminal cannot be queried or written
RunSetup ==
    /\ pc = "run"
    /\ query' = <<>>
    /\ state' = DefaultState
    /\ filtered' = candidates
    /\ old_state' = DefaultState
    /\ old_query' = <<>>
    /\ redraw' = TRUE
    /\ \/ pc' = "top" /\ UNCHANGED result
       \/ pc' = "returned" /\ result' = [kind |-> "Err", val |-> 0]
    /\ UNCHANGED <<callVars, candidates, keep_order, tty, term, raw_term, restores,
                   frame, last_action, printed>>

\* Terminal::run, lines 97-114: the head of the loop ranks again when the
\* query changed and draws when something changed, in a window of some width.
\* A panic of rank_candidates or of draw_candidate unwinds out of run; a
\* failed draw returns the error.
Render ==
    /\ pc = "top"
    /\ LET changed == query # old_query
           ranked == IF changed /\ Len(query) # 0
                     THEN rank_candidates(candidates, query, keep_order)
                     ELSE [kind |-> "ok", list |-> <<>>]
           reranked == changed /\ Len(query) # 0
           new_filtered == IF ~changed THEN filtered
                           ELSE IF Len(query) = 0 THEN candidates
                           ELSE ranked.list
           new_redraw == redraw \/ reranked
           new_state == IF reranked THEN [state EXCEPT !.selected = 0] ELSE state
           new_old_query == IF reranked THEN query ELSE old_query
       IN IF ranked.kind = "panic"
          THEN /\ pc' = "returned"
               /\ result' = [kind |-> "Panic", val |-> 0]
               /\ UNCHANGED <<filtered, redraw, state, old_query, old_state, frame>>
          ELSE /\ filtered' = new_filtered
               /\ state' = new_state
               /\ old_query' = new_old_query
               /\ IF new_redraw \/ new_state.cursor # old_state.cursor
                                \/ new_state.selected # old_state.selected
                  THEN \/ /\ \E width \in 0..MaxWidth, build \in Builds :
                                draw(new_filtered, width, build) = "ok"
                          /\ frame' = [drawn |-> TRUE, query |-> query,
                                       filtered |-> new_filtered,
                                       selected |-> new_state.selected,
                                       before |-> IF frame.drawn THEN frame.query ELSE <<>>]
                          /\ old_state' = new_state
                          /\ redraw' = FALSE
                          /\ pc' = "read"
                          /\ UNCHANGED result
                       \/ /\ \E width \in 0..MaxWidth, build \in Builds :
                                draw(new_filtered, width, build) = "panic"
                          /\ pc' = "returned"
                          /\ result' = [kind |-> "Panic", val |-> 0]
                          /\ redraw' = new_redraw
                          /\ UNCHANGED <<frame, old_state>>
                       \/ /\ pc' = "returned"
                          /\ result' = [kind |-> "Err", val |-> 0]
                          /\ redraw' = new_redraw
                          /\ UNCHANGED <<frame, old_state>>
                  ELSE /\ redraw' = new_redraw
                       /\ pc' = "read"
                       /\ UNCHANGED <<frame, old_state, result>>
    /\ UNCHANGED <<callVars, candidates, keep_order, tty, term, raw_term, restores,
                   query, last_action, printed>>

\* Terminal::run, lines 116-140: a key is read and its action applied; Close
\* breaks out of the loop, which returns Ok(0).  The query grows to
\* MaxQueryLen bytes at most.
ReadKey ==
    /\ pc = "read"
    /\ \E first \in SessionBytes \cup {ReadErr} :
       \E avail \in IF first = ESC THEN AvailableFrom(SessionFollowBytes) ELSE {<<>>} :
       \E third \in IF Len(avail) = 2 /\ avail[2] = DIGIT3
                    THEN {TILDE, LowerA, ReadErr} ELSE {ReadErr} :
          LET r == read_key(first, avail, third, raw_term)
              action == IF r.key = NoKey THEN Action("NoKey", first) ELSE key_to_action(r.key)
              after == apply_action(action, query, state)
          IN /\ action.kind = "Byte" => Len(query) < MaxQueryLen
             /\ raw_term' = r.raw_term
             /\ tty' = IF r.vmins # <<>> THEN r.raw_term ELSE tty
             /\ last_action' = action
             /\ IF action.kind = "Close"
                THEN /\ pc' = "returned"
                     /\ result' = [kind |-> "Ok", val |-> 0]
                     /\ UNCHANGED <<query, state>>
                ELSE /\ pc' = "top"
                     /\ query' = after.query
                     /\ state' = after.state
                     /\ UNCHANGED result
    /\ UNCHANGED <<callVars, candidates, keep_order, term, restores, filtered,
                   old_query, old_state, redraw, frame, printed>>

\* a drop that applies raw_term in place of the captured term
DropTerminalRaw ==
    /\ pc = "returned"
    /\ tty' = raw_term
    /\ restores' = restores + 1
    /\ pc' = "dropped"
    /\ UNCHANGED <<callVars, candidates, keep_order, term, raw_term, query, state,
                   filtered, old_query, old_state, redraw, frame, last_action, result,
                   printed>>

\* impl Drop for Terminal: runs when main's block is left, by run's return
\* or by a panic unwinding through it, and applies the captured attributes
DropTerminal ==
    /\ pc = "returned"
    /\ tty' = term
    /\ restores' = restores + 1
    /\ pc' = "dropped"
    /\ UNCHANGED <<callVars, candidates, keep_order, term, raw_term, query, state,
                   filtered, old_query, old_state, redraw, frame, last_action, result,
                   printed>>

\* main, lines 119-128: the outcome of run is printed; a panic ends the
\* process without printing
Report ==
    /\ pc = "dropped"
    /\ printed' = CASE result.kind = "Ok" -> <<"select", result.val>>
                    [] result.kind = "Err" -> <<"fail to get select", 0>>
                    [] OTHER -> <<"panicked", 0>>
    /\ pc' = "exit"
    /\ UNCHANGED <<callVars, candidates, keep_order, tty, term, raw_term, restores,
                   query, state, filtered, old_query, old_state, redraw, frame,
                   last_action, result>>

Next == NewTerminal \/ RunSetup \/ Render \/ ReadKey \/ DropTerminal \/ Report

Spec == Init /\ [][Next]_vars

\* the process keeps running: a step that can be taken is taken, and a read
\* that fails returns at once
FairSpec == Init /\ [][Next]_vars /\ WF_vars(Next)

\* ---------------------------------------------- claims on the ranking engine
Returned == calls > 0 /\ output.kind = "ok"

Tokens == split_query(input.query)

SmartCase == ~has_upper(input.query)

\* the byte at 0-based offset i of s
ByteAt(s, i) == s[i + 1]

\* token character c matches path byte b under the case rule of the query:
\* any case of the letter when the query has no uppercase letter, the
\* identical byte otherwise
CaseMatch(c, b) ==
    IF \E i \in 1..Len(input.query) : input.query[i] \in 65..90
    THEN b = c
    ELSE b = c \/ (c \in 97..122 /\ b = c - 32)

RECURSIVE IsSubsequence(_, _)
\* token is a subsequence of path under CaseMatch
IsSubsequence(token, path) ==
    IF token = <<>> THEN TRUE
    ELSE IF path = <<>> THEN FALSE
    ELSE IF CaseMatch(Head(token), Head(path)) THEN IsSubsequence(Tail(token), Tail(path))
    ELSE IsSubsequence(token, Tail(path))

RECURSIVE IsExactSubsequence(_, _)
\* token is a subsequence of path byte for byte
IsExactSubsequence(token, path) ==
    IF token = <<>> THEN TRUE
    ELSE IF path = <<>> THEN FALSE
    ELSE IF Head(token) = Head(path) THEN IsExactSubsequence(Tail(token), Tail(path))
    ELSE IsExactSubsequence(token, Tail(path))

\* token i of the query scores against candidate c, taken alone
TokenScore(c, i) == rank_token(c.path, c.name, DefaultRange, Tokens[i], SmartCase)

AllTokensScore(c) == \A i \in 1..Len(Tokens) : TokenScore(c, i).kind = "some"

RECURSIVE SumOfScores(_, _)
SumOfScores(c, i) ==
    IF i > Len(Tokens) THEN F(0) ELSE TokenScore(c, i).rank + SumOfScores(c, i + 1)

\* C1: rank_candidates never fails: for every candidate list and every query
\* it returns a list and never aborts with an out-of-bounds index or panic.
RankNeverFails == calls > 0 => output.kind = "ok"

\* C2: a query whose split on single spaces yields an empty token makes
\* rank_candidates return the empty list, for every candidate set.
EmptyTokenRejectsAll ==
    (calls > 0 /\ \E i \in 1..Len(Tokens) : Tokens[i] = <<>>)
        => (output.kind = "ok" /\ output.list = <<>>)

\* C7: for every returned candidate and every token i, ranges[i].end is below
\* the byte length of path, path[ranges[i].start] is the token's first
\* character and path[ranges[i].end] is its last one, under the case rule.
RangesMarkTokens ==
    Returned =>
        \A k \in 1..Len(output.list) :
            LET c == output.list[k]
            IN \A i \in 1..Len(Tokens) :
                  /\ c.ranges[i].end < Len(c.path)
                  /\ c.ranges[i].start < Len(c.path)
                  /\ CaseMatch(Tokens[i][1], ByteAt(c.path, c.ranges[i].start))
                  /\ CaseMatch(Tokens[i][Len(Tokens[i])], ByteAt(c.path, c.ranges[i].end))

\* C8: a candidate is in the result exactly when every token of the query
\* scores against it, and a returned candidate's rank is the sum of its
\* per-token scores, whatever rank it carried into the call.
AndSemantics ==
    Returned =>
        /\ Len(output.list) =
              Cardinality({j \in 1..Len(input.candidates) :
                              AllTokensScore(input.candidates[j])})
        /\ \A k \in 1..Len(output.list) :
              LET c == output.list[k]
              IN /\ \E j \in 1..Len(input.candidates) :
                        /\ input.candidates[j].path = c.path
                        /\ input.candidates[j].name = c.name
                        /\ AllTokensScore(input.candidates[j])
                 /\ c.rank = SumOfScores(c, 1)

\* a candidate is rejected although the first of two tokens scores
AndSemanticsWitness ==
    /\ Returned
    /\ Len(Tokens) = 2
    /\ TokenScore(input.candidates[1], 1).kind = "some"
    /\ TokenScore(input.candidates[1], 2).kind = "none"
    /\ output.list = <<>>

\* C9: for the empty query rank_candidates returns the empty list, with
\* keep_order true or false.
EmptyQueryEmptyResult ==
    (calls > 0 /\ input.query = <<>>) => (output.kind = "ok" /\ output.list = <<>>)

EmptyQueryWitness ==
    /\ calls > 0
    /\ input.query = <<>>
    /\ input.keep_order
    /\ input.candidates # <<>>
    /\ output.list = <<>>

\* C10: smart case: a candidate is kept exactly when every token is a
\* subsequence of its path under the case rule: whatever the case of the path
\* byte when the query has no uppercase letter, the identical byte otherwise.
SmartCaseRule ==
    (Returned /\ calls = 1 /\ \A i \in 1..Len(Tokens) : Tokens[i] # <<>>) =>
        \A j \in 1..Len(input.candidates) :
            (\E k \in 1..Len(output.list) :
                output.list[k].path = input.candidates[j].path)
            <=> (\A i \in 1..Len(Tokens) :
                    IsSubsequence(Tokens[i], input.candidates[j].path))

\* a lowercase query keeps a path that it matches only by folding case
SmartCaseWitness ==
    /\ Returned
    /\ calls = 1
    /\ input.query # <<>>
    /\ SmartCase
    /\ output.list # <<>>
    /\ \E i \in 1..Len(Tokens) : ~IsExactSubsequence(Tokens[i], output.list[1].path)

\* a stands before b in the order (rank, byte length of path, path)
InOrder(a, b) ==
    \/ a.rank < b.rank
    \/ a.rank = b.rank /\ Len(a.path) < Len(b.path)
    \/ /\ a.rank = b.rank
       /\ Len(a.path) = Len(b.path)
       /\ \/ a.path = b.path
          \/ \E i \in 1..Len(a.path) :
                /\ a.path[i] < b.path[i]
                /\ \A j \in 1..(i - 1) : a.path[j] = b.path[j]

\* C11: with keep_order false the returned list is sorted ascending by
\* (rank, byte length of path, path), and it is the same list for every order
\* in which the same candidates stand in the input.
SortedByRankLengthPath ==
    (Returned /\ ~input.keep_order) =>
        /\ \A k \in 1..(Len(output.list) - 1) :
              InOrder(output.list[k], output.list[k + 1])
        /\ "earlier" \in DOMAIN output => output.list = output.earlier

\* two candidates of equal rank stood in the input the longer path first, and
\* are returned the shorter path first
SortedWitness ==
    /\ Returned
    /\ calls = 2
    /\ ~input.keep_order
    /\ Len(output.list) = 2
    /\ output.list[1].rank = output.list[2].rank
    /\ Len(output.list[1].path) < Len(output.list[2].path)
    /\ input.candidates[1].path = output.list[2].path

\* C12: with keep_order true the returned list is a subsequence of the input
\* list, whatever the ranks, and each returned candidate carries its computed
\* rank and one range per token.
KeepOrderSubsequence ==
    (Returned /\ input.keep_order) =>
        /\ \E g \in [1..Len(output.list) -> 1..Len(input.candidates)] :
              /\ \A k \in 1..(Len(output.list) - 1) : g[k] < g[k + 1]
              /\ \A k \in 1..Len(output.list) :
                    /\ output.list[k].path = input.candidates[g[k]].path
                    /\ output.list[k].name = input.candidates[g[k]].name
        /\ \A k \in 1..Len(output.list) :
              /\ output.list[k].rank = SumOfScores(output.list[k], 1)
              /\ \A i \in 1..Len(Tokens) :
                    output.list[k].ranges[i] = TokenScore(output.list[k], i).range

\* the input order is kept although the second candidate has the better rank
KeepOrderWitness ==
    /\ Returned
    /\ input.keep_order
    /\ Len(output.list) = 2
    /\ output.list[1].rank > output.list[2].rank
    /\ output.list[1].path = input.candidates[1].path

\* C13: every returned candidate has as many ranges as the query has tokens,
\* and every range has start <= end.
RangesWellFormed ==
    Returned =>
        \A k \in 1..Len(output.list) :
            /\ Len(output.list[k].ranges) = Len(Tokens)
            /\ \A i \in 1..Len(Tokens) :
                  output.list[k].ranges[i].start <= output.list[k].ranges[i].end

\* a token matched over several bytes that begin after the start of the path
RangesWellFormedWitness ==
    /\ Returned
    /\ Len(output.list) = 1
    /\ Len(output.list[1].ranges) = Len(Tokens)
    /\ output.list[1].ranges[1].start > 0
    /\ output.list[1].ranges[1].start < output.list[1].ranges[1].end

\* token is the beginning of the display name of candidate c, which has no
\* directory part: the token aligns at offset 0 with consecutive bytes, the
\* best alignment score there is
TokenBeginsName(token, c) ==
    /\ c.name = SomeName(c.path)
    /\ Len(token) <= Len(c.path)
    /\ SubSeq(c.path, 1, Len(token)) = token

\* C14: for one token matched in the filename phase with the same alignment
\* score, the display name that the token covers more fully never gets the
\* higher score, and a display name equal to the token scores strictly lower
\* than a longer display name of which the token is a part.
CoverageOrdersScores ==
    (Returned /\ Len(Tokens) = 1) =>
        \A j, k \in 1..Len(output.list) :
            LET short == output.list[j]
                long == output.list[k]
            IN (/\ TokenBeginsName(Tokens[1], short)
                /\ TokenBeginsName(Tokens[1], long)
                /\ Len(short.path) < Len(long.path))
               => /\ short.rank <= long.rank
                  /\ Len(short.path) = Len(Tokens[1]) => short.rank < long.rank

\* the best alignment score of token over the occurrences of its first
\* character in str
BestAlignment(str, token) ==
    scan_starts(str, str, token, SmartCase, 0, 0,
                [kind |-> "some", rank |-> MAX, range |-> DefaultRange]).rank

\* the score of token against candidate c when phase 1 tries the occurrences
\* of the token's first character inside the display name: the filename
\* phase, halved and scaled, when the token is a subsequence of the display
\* name, the full-path phase otherwise
FilenamePriorityScore(c, token) ==
    IF c.name.some /\ IsSubsequence(token, c.name.val)
    THEN scale_by_coverage(BestAlignment(c.name.val, token), Len(token), Len(c.name.val))
    ELSE BestAlignment(c.path, token)

\* C22: with a display name, a token is scored by the filename phase (halving
\* and exact or coverage scaling) exactly when it is a subsequence of the
\* display name under the case rule, and by the full-path phase, with no
\* halving or scaling, otherwise.
FilenamePriority ==
    (Returned /\ Len(Tokens) = 1 /\ Tokens[1] # <<>> /\ output.list # <<>>) =>
        output.list[1].rank = FilenamePriorityScore(output.list[1], Tokens[1])

\* candidate j of the input is in the list that the call returned
Kept(j) ==
    /\ output.kind = "ok"
    /\ \E k \in 1..Len(output.list) : output.list[k].path = input.candidates[j].path

\* C25: for a query whose tokens are all non-empty, rank_candidates keeps a
\* candidate if and only if every token is a subsequence of the bytes of its
\* path under the case rule of the query: stopping at the first occurrence of
\* the token's first character whose alignment fails never drops a candidate
\* that a later occurrence would have matched.
EarlyExitKeepsMatches ==
    (calls = 1 /\ \A i \in 1..Len(Tokens) : Tokens[i] # <<>>) =>
        \A j \in 1..Len(input.candidates) :
            Kept(j) <=> (\A i \in 1..Len(Tokens) :
                            IsSubsequence(Tokens[i], input.candidates[j].path))

\* ------------------------------------------- claims on the alignment score
Scanned == calls > 0 /\ "start_index" \in DOMAIN input

\* the byte b of the name matches the token character c
ScanMatch(c, b, smart_case) ==
    IF smart_case THEN b = c \/ (b \in 65..90 /\ b + 32 = c) ELSE b = c

BoundaryBytes == {SEP, UNDERSCORE, DASH, DOT, SPACE}

\* the offsets of the alignment: p[0] is the start, p[k] the leftmost offset
\* after p[k-1] whose byte matches character k of the rest of the token
AlignmentPositions(name, token, start_index, smart_case) ==
    {p \in [0..Len(token) -> 0..(Len(name) - 1)] :
        /\ p[0] = start_index
        /\ \A k \in 1..Len(token) :
              /\ p[k] > p[k - 1]
              /\ ScanMatch(token[k], ByteAt(name, p[k]), smart_case)
              /\ \A j \in (p[k - 1] + 1)..(p[k] - 1) :
                    ~ScanMatch(token[k], ByteAt(name, j), smart_case)}

\* what character k adds to the score
StepScore(name, p, k) ==
    IF p[k] = p[k - 1] + 1
    THEN IF k > 1 /\ p[k - 1] = p[k - 2] + 1 THEN F(0) ELSE F(1)
    ELSE F(p[k] - p[k - 1])
         + (IF ByteAt(name, p[k] - 1) \in BoundaryBytes THEN F(0) ELSE F(2))

RECURSIVE StepsScore(_, _, _)
StepsScore(name, p, k) ==
    IF k = 0 THEN F(0) ELSE StepScore(name, p, k) + StepsScore(name, p, k - 1)

AlignmentScoreOf(name, p) ==
    F(1)
    + (IF p[0] > 0 /\ ByteAt(name, p[0] - 1) \notin BoundaryBytes THEN F(2) ELSE F(0))
    + StepsScore(name, p, Cardinality(DOMAIN p) - 1)

RanksOfPath(list, path) ==
    {list[i].rank : i \in {j \in 1..Len(list) : list[j].path = path}}

\* C23: scan_to_end scores 1, plus 2 for a start after offset 0 whose previous
\* byte is no boundary character, plus for each further character at its
\* leftmost position after the previous match: 1 when adjacent and first of
\* its run, 0 when adjacent and later in the run, else the distance jumped
\* plus 2 when the byte before the landing is no boundary character; there is
\* no score when a character is not found.  For the candidates "a_b.txt" and
\* "xab.txt" and the query "ab", "a_b.txt" gets the strictly lower rank.
AlignmentScore ==
    /\ Scanned =>
          LET ps == AlignmentPositions(input.name, input.token, input.start_index,
                                       input.smart_case)
          IN IF ps = {} THEN output.matched.kind = "none"
             ELSE /\ output.matched.kind = "some"
                  /\ \A p \in ps : /\ output.matched.rank = AlignmentScoreOf(input.name, p)
                                   /\ output.matched.start = p[0]
                                   /\ output.matched.end = p[Len(input.token)]
    /\ (calls > 0 /\ "candidates" \in DOMAIN input
           /\ <<input.candidates[1].path, input.candidates[2].path>> \in BoundaryCandidates
           /\ input.query = <<LowerA, LowerB>>) =>
          /\ output.kind = "ok"
          /\ Len(output.list) = 2
          /\ \A a \in RanksOfPath(output.list, <<97, 95, 98, 46, 116, 120, 116>>),
                b \in RanksOfPath(output.list, <<120, 97, 98, 46, 116, 120, 116>>) : a < b

\* an alignment with an adjacent character and a jump to a character that
\* follows a boundary character
AlignmentScoreWitness ==
    /\ Scanned
    /\ output.matched.kind = "some"
    /\ Len(input.token) = 2
    /\ input.start_index = 0
    /\ input.name[3] = UNDERSCORE
    /\ output.matched.end = 3
    /\ output.matched.rank = F(4)

\* ------------------------------------------------ claims on draw_candidate
Drawn == calls = 2 /\ output.kind = "drawn"

\* the segments run from offset 0 to len in increasing order without gap
CoverInOrder(segments, len) ==
    /\ \A i \in 1..Len(segments) :
          segments[i].start <= segments[i].end /\ segments[i].end <= len
    /\ segments # <<>> =>
          /\ segments[1].start = 0
          /\ segments[Len(segments)].end = len
    /\ \A i \in 1..(Len(segments) - 1) : segments[i].end = segments[i + 1].start

\* C24: for every candidate that rank_candidates returns, for any query,
\* the split of the truncated path by IterRanges yields segments with
\* start <= end <= path length that cover the offsets 0 to the path length in
\* increasing order without gaps, so draw_candidate never slices the path
\* backwards or out of bounds.
SegmentsCoverPath ==
    (Drawn /\ output.list[output.line].ranges # <<>>) =>
        /\ output.drawn.kind = "ok"
        /\ CoverInOrder(output.drawn.segments, Len(output.drawn.path))
        /\ (Len(output.drawn.path) > 0 => output.drawn.segments # <<>>)

\* ----------------------------------------------- claims on Config::parse
RECURSIVE InOptionPosition(_)
\* argument i stands where an option is expected, were the scan to get there:
\* it is the first one, or it follows a flag, or it follows the value of -f
\* or -l
InOptionPosition(i) ==
    \/ i = 1
    \/ i > 1 /\ input.args[i - 1] \in {ArgK, ArgKeepOrder, ArgP, ArgPlain}
             /\ InOptionPosition(i - 1)
    \/ i > 2 /\ input.args[i - 2] \in {ArgL, ArgLines, ArgF, ArgFilter}
             /\ InOptionPosition(i - 2)

\* v writes a positive integer
PositiveInteger(v) ==
    LET digits == IF v # <<>> /\ v[1] = 43 THEN Tail(v) ELSE v
    IN /\ digits # <<>>
       /\ \A i \in 1..Len(digits) : digits[i] \in 48..57
       /\ \E i \in 1..Len(digits) : digits[i] # 48

\* argument i, met as an option, is an error
BadOption(i) ==
    \/ input.args[i] \notin {ArgH, ArgHelp, ArgV, ArgVersion, ArgK, ArgKeepOrder,
                             ArgP, ArgPlain, ArgL, ArgLines, ArgF, ArgFilter}
    \/ input.args[i] \in {ArgL, ArgLines, ArgF, ArgFilter} /\ i = Len(input.args)
    \/ /\ input.args[i] \in {ArgL, ArgLines}
       /\ i < Len(input.args)
       /\ ~PositiveInteger(input.args[i + 1])

\* the arguments at which a scan from left to right ends early
ScanEnds ==
    {i \in 1..Len(input.args) :
        /\ InOptionPosition(i)
        /\ input.args[i] \in {ArgH, ArgHelp, ArgV, ArgVersion} \/ BadOption(i)}

\* the options examined: those in option position up to the end of the scan
Examined ==
    {i \in 1..Len(input.args) :
        InOptionPosition(i) /\ \A e \in ScanEnds : i <= e}

\* C21: Config::parse scans the arguments left to right; -h and -v set their
\* flag and stop the scan; an unrecognized argument, -f or -l as the last
\* argument and a --lines value that is no positive integer give an error;
\* the argument after -f or -l is its value and is never parsed as an option.
ParseScansLeftToRight ==
    calls = 1 =>
        LET last == IF ScanEnds = {} THEN 0 ELSE Min(ScanEnds)
            c == output.config
            filters == {i \in Examined : input.args[i] \in {ArgF, ArgFilter}}
        IN IF last # 0 /\ BadOption(last) THEN output.kind = "err"
           ELSE /\ output.kind = "ok"
                /\ c.help = (last # 0 /\ input.args[last] \in {ArgH, ArgHelp})
                /\ c.version = (last # 0 /\ input.args[last] \in {ArgV, ArgVersion})
                /\ c.keep_order = (\E i \in Examined : input.args[i] \in {ArgK, ArgKeepOrder})
                /\ c.plain = (\E i \in Examined : input.args[i] \in {ArgP, ArgPlain})
                /\ c.skip_ui = (filters # {})
                /\ c.query = IF filters = {} THEN <<>>
                             ELSE input.args[(CHOOSE i \in filters :
                                                 \A j \in filters : j <= i) + 1]
                /\ c.lines > 0

\* "-f -h": -h is the query, and the help flag is not set
ParseWitness ==
    /\ calls = 1
    /\ input.args = <<ArgF, ArgH>>
    /\ output.kind = "ok"
    /\ output.config.query = ArgH
    /\ ~output.config.help

\* ------------------------------------------- claims on Candidate::collect
Collected == calls = 1 /\ output.kind = "ok"

\* the bytes of path after its last separator, the whole path without one
AfterLastSeparator(path) ==
    LET seps == {i \in 1..Len(path) : path[i] = SEP}
    IN IF seps = {} THEN path
       ELSE SubSeq(path, (CHOOSE i \in seps : \A j \in seps : j <= i) + 1, Len(path))

\* C15: with plain false the display name of every record is the substring
\* of path after its last separator, the whole path when it has none; with
\* plain true the display name is absent.
NameIsAfterLastSeparator ==
    Collected =>
        \A k \in 1..Len(output.list) :
            output.list[k].name =
                IF input.plain THEN NoName
                ELSE SomeName(AfterLastSeparator(output.list[k].path))

\* the non-empty maximal delimiter-free segments of the content, as pairs
\* <<first, last>> of positions
Segments ==
    LET n == Len(input.content)
    IN {seg \in (1..n) \X (1..n) :
           /\ seg[1] <= seg[2]
           /\ \A i \in seg[1]..seg[2] : input.content[i] # input.delimiter
           /\ seg[1] = 1 \/ input.content[seg[1] - 1] = input.delimiter
           /\ seg[2] = n \/ input.content[seg[2] + 1] = input.delimiter}

\* C16: collect returns exactly the non-empty maximal delimiter-free segments
\* of the input, in input order, each with rank 0.0 and no ranges; a content
\* of one-byte characters is always collected.
CollectReturnsSegments ==
    calls = 1 =>
        /\ (\A i \in 1..Len(input.content) : input.content[i] < 128)
              => output.kind = "ok"
        /\ output.kind = "ok" =>
              /\ Len(output.list) = Cardinality(Segments)
              /\ \A seg \in Segments :
                    LET c == output.list[1 + Cardinality({t \in Segments : t[1] < seg[1]})]
                    IN /\ c.path = SubSeq(input.content, seg[1], seg[2])
                       /\ c.rank = F(0)
                       /\ c.ranges = <<>>

\* two records around a run of two delimiters
CollectWitness ==
    /\ Collected
    /\ Len(input.content) = 4
    /\ input.content[2] = input.delimiter
    /\ input.content[3] = input.delimiter
    /\ Len(output.list) = 2

\* ------------------------------------------------------ claims on the session
\* C3: the filtered list used at every render is rank_candidates(candidates,
\* query, keep_order) when the query is not empty and the full candidate list
\* when it is, and the selected row is 0 whenever the query changed since the
\* last render.
RenderShowsCurrentRanking ==
    frame.drawn =>
        /\ frame.filtered =
              IF frame.query = <<>> THEN candidates
              ELSE rank_candidates(candidates, frame.query, keep_order).list
        /\ (frame.query # frame.before => frame.selected = 0)

\* the continuation avail, third of an ESC is an arrow: [ or O, then A, B, C or D
IsArrow(avail) ==
    /\ Len(avail) = 2
    /\ avail[1] \in {LBRACKET, UpperO}
    /\ avail[2] \in {UpperA, UpperB, UpperC, UpperD}

\* the continuation of an ESC is the Delete sequence [ 3 ~
IsDelete(avail, third) == avail = <<LBRACKET, DIGIT3>> /\ third = TILDE

\* C4: once an ESC byte has been read, every continuation that is not an
\* arrow or the Delete sequence resolves to Key::Esc, never to no key.
EscapeResolvesToEsc ==
    (calls = 1 /\ "first" \in DOMAIN input /\ input.first = ESC
        /\ ~IsArrow(input.avail) /\ ~IsDelete(input.avail, input.third))
        => output.key = Key("Esc", 0)

\* C5: once Terminal::new has switched the terminal to raw mode, on every way
\* the session ends the captured attributes are applied again exactly once:
\* the process never ends with the terminal in raw mode.
TerminalRestored ==
    /\ restores <= 1
    /\ pc = "exit" =>
          /\ tty = CookedTermios
          /\ term # NoTermios => (restores = 1 /\ tty = term)

\* the session ended by a panic unwinding out of run, the terminal restored
TerminalRestoredWitness ==
    /\ pc = "exit"
    /\ result.kind = "Panic"
    /\ restores = 1
    /\ tty = term

\* C6: the outcome of the session is the index of the candidate committed
\* with Enter, or an explicit no-selection outcome: a session closed without
\* committing is not reported as a selected index.
SelectionOutcome ==
    printed[1] = "select" => last_action.kind = "Select"

\* a key was read and its action applied, the loop goes on
KeyApplied == pc = "read" /\ pc' = "top"

\* C17: a printable byte is inserted into the query at the caret, which
\* advances by one; Backspace with the caret above 0 removes the byte before
\* the caret, which moves back by one, and changes nothing with the caret at
\* 0; the caret always lies within 0..length of the query.
CaretEdits ==
    /\ [](state.cursor >= 0 /\ state.cursor <= Len(query))
    /\ [][KeyApplied =>
            /\ last_action'.kind = "Byte" =>
                  /\ query' = SubSeq(query, 1, state.cursor) \o <<last_action'.byte>>
                                 \o SubSeq(query, state.cursor + 1, Len(query))
                  /\ state'.cursor = state.cursor + 1
            /\ last_action'.kind = "Backspace" =>
                  IF state.cursor > 0
                  THEN /\ query' = SubSeq(query, 1, state.cursor - 1)
                                     \o SubSeq(query, state.cursor + 1, Len(query))
                       /\ state'.cursor = state.cursor - 1
                  ELSE query' = query /\ state' = state]_vars

\* Backspace has removed the second byte of a query of two bytes
CaretEditsWitness ==
    /\ pc = "top"
    /\ last_action.kind = "Backspace"
    /\ frame.drawn
    /\ Len(frame.query) = 2
    /\ query = SubSeq(frame.query, 1, 1)
    /\ state.cursor = 1

\* the rows of the filtered list that the viewport shows, on a terminal with
\* more rows than there are candidates
VisibleRows == Len(filtered)

\* C18: a down key moves the selected row down by one when a lower visible
\* row exists, an up key moves it up by one when it is above 0, and the
\* selected row is always a visible row, or 0 when the list is empty.  When a
\* key has just been applied, old_state is the state the key found.
SelectionMoves ==
    /\ state.selected = 0 \/ state.selected < VisibleRows
    /\ (pc = "top" /\ frame.drawn) =>
          /\ (last_action.kind = "LineDown" /\ old_state.selected + 1 < VisibleRows)
                => state.selected = old_state.selected + 1
          /\ (last_action.kind = "LineUp" /\ old_state.selected > 0)
                => state.selected = old_state.selected - 1

\* C19: every switch to non-blocking reads that read_key makes after an ESC
\* byte is followed by a switch back to blocking reads before it returns,
\* whatever bytes follow the ESC, or none: VMIN is set to 0, then to 1, and
\* read_key leaves raw_term with VMIN 1.
BlockingRestored ==
    (calls = 1 /\ input.first = ESC) =>
        /\ output.vmins = <<0, 1>>
        /\ output.raw_term.VMIN = 1

\* an ESC with nothing after it: the read of the two bytes failed, the
\* terminal is back to blocking reads
BlockingRestoredWitness ==
    /\ calls = 1
    /\ input.first = ESC
    /\ input.avail = <<>>
    /\ output.key = NoKey
    /\ output.vmins = <<0, 1>>
    /\ output.raw_term.VMIN = 1

\* the positions of s where a codepoint begins: the bytes that are not
\* continuation bytes
CodepointStarts(s) == {i \in 1..Len(s) : s[i] \notin 128..191}

\* the prefix of s made of its first k codepoints
FirstCodepoints(s, k) ==
    LET starts == CodepointStarts(s)
    IN IF k >= Cardinality(starts) THEN s
       ELSE SubSeq(s, 1, (CHOOSE i \in starts :
                             Cardinality({j \in starts : j < i}) = k) - 1)

\* C20: shrink_str(s, width) is the prefix of s made of its first
\* min(width, number of codepoints of s) codepoints: never more than width
\* codepoints, for every width including 0.
ShrinkToWidth ==
    calls = 1 => output.text = FirstCodepoints(input.s, input.width)

\* the loop of run is left
LoopLeft == pc \in {"returned", "dropped", "exit"}

\* from some point on every read of the terminal fails
ReadsFail == last_action = Action("NoKey", ReadErr)

\* C26: the session loop terminates: it exits when a close action is read,
\* and when the terminal stops delivering bytes, every read failing or
\* reporting the end of the input, the loop also exits in the end.
SessionTerminates ==
    /\ (last_action.kind = "Close") ~> (pc = "exit")
    /\ <>[]ReadsFail => <>LoopLeft

====
